---- MODULE Spec2Model ----
(***************************************************************************)
(* A model of ifcpatch/__init__.py: execute (recipe resolution, input      *)
(* validation, instantiation, patch, result), write (output dispatch) and  *)
(* extract_docs / _extract_docs (signature, type hint and docstring        *)
(* parsing).                                                               *)
(***************************************************************************)
EXTENDS Integers, Sequences, FiniteSets, TLC

\* ------------------------------------------------------------------ bounds
\* Calls of execute made in one process.
MaxCalls == 2

\* ------------------------------------------------------------------ values
\* Python's None.
None == "None"
\* The marker getattr/hasattr see for an attribute that does not exist.
NoAttr == "<no attribute>"

\* Values a caller can put under args["input"]: None, the empty string, a path.
InputValues == {None, "", "in.ifc"}
\* Values a caller can put under args["file"]: None or an ifcopenshell.file.
FileValues == {None, "ifc"}
\* Values of args["log"].
LogPaths == {"A.log", "B.log"}
\* Lists a caller can put under args["arguments"].
ArgumentLists == {<<>>, <<"x">>, <<"x", "y">>, <<"y", "x">>}

\* ArgumentsDict: the keys that are present and the value under each
\* (the value of a key that is not present is never read).
ArgumentsDict ==
    [keys : SUBSET {"file", "input", "log", "arguments"},
     input : InputValues,
     file : FileValues,
     log : LogPaths,
     arguments : ArgumentLists]

\* Requests, one representative per dict: keys that are absent hold a fixed value.
Requests ==
    {a \in ArgumentsDict :
        /\ ("input" \notin a.keys => a.input = None)
        /\ ("file" \notin a.keys => a.file = None)
        /\ ("log" \notin a.keys => a.log = "A.log")
        /\ ("arguments" \notin a.keys => a.arguments = <<>>)}

NoRequest == [keys |-> {}, input |-> None, file |-> None, log |-> "A.log", arguments |-> <<>>]

\* args.get("input"), args.get("file"): None when the key is absent.
GetInput(a) == IF "input" \in a.keys THEN a.input ELSE None
GetFile(a) == IF "file" \in a.keys THEN a.file ELSE None
\* args.get("arguments", [])
GetArguments(a) == IF "arguments" \in a.keys THEN a.arguments ELSE <<>>
\* Python truthiness of a str-or-None value.
Truthy(v) == v /= None /\ v /= ""

\* A positional argument of the Patcher constructor: one value, or one list.
Scalar(v) == [tag |-> "scalar", v |-> v, items |-> <<>>]
ListArg(l) == [tag |-> "list", v |-> None, items |-> l]
Logger == Scalar("logger:IFCPatch")

VARIABLES
    pc,         \* position inside execute
    args,       \* the request of the call in progress
    policy,     \* what get_patch_input_argument_use returned
    trace,      \* what the call has invoked so far, in order
    ctorArgs,   \* the positional arguments handed to recipe.Patcher
    hasDoc,     \* whether Patcher.__init__.__doc__ is not None
    patcher,    \* attributes of the Patcher instance
    outcome,    \* how the call ended
    result,     \* the value execute returned
    handlers,   \* files of the root logger's handlers (process-wide)
    logFiles,   \* content of each log file: the calls whose diagnostics it holds
    callLog,    \* per call of this process, the log path it carried (None: no log)
    emitted     \* the calls whose recipe emitted a diagnostic

execVars == <<pc, args, policy, trace, ctorArgs, hasDoc, patcher, outcome, result,
              handlers, logFiles, callLog, emitted>>

\* State of a call of write.
VARIABLES
    fs0,        \* the filesystem when write is called
    fs,         \* the filesystem now: path -> Absent, Dir or a file's content
    output,     \* write's first argument
    filepath,   \* write's second argument
    wpc,        \* "ready" before the call, "done" after ("idle": no call)
    wOutcome,   \* "none", "ok" or the exception write raised
    ops         \* the calls write made, in order

writeVars == <<fs0, fs, output, filepath, wpc, wOutcome, ops>>

\* State of a call of extract_docs.
VARIABLES
    dIn,        \* the recipe file, class and method extract_docs is asked about
    dpc,        \* "ready" before the call, "done" after ("idle": no call)
    dOutcome,   \* "docs", "nothing" or the exception that reached the caller
    docs,       \* the value returned (meaningful when dOutcome = "docs")
    sigInputs,  \* `inputs` as it was when the docstring pass began
    printed     \* whether a diagnostic was printed

docVars == <<dIn, dpc, dOutcome, docs, sigInputs, printed>>

vars == <<execVars, writeVars, docVars>>

NoPatcher == [hasFile |-> FALSE, file |-> None, hasPatched |-> FALSE, file_patched |-> None]

ExecInit ==
    /\ pc = "idle"
    /\ args = NoRequest
    /\ policy = ""
    /\ trace = <<>>
    /\ ctorArgs = <<>>
    /\ hasDoc = FALSE
    /\ patcher = NoPatcher
    /\ outcome = "none"
    /\ result = None
    /\ handlers = <<>>
    /\ logFiles = [p \in LogPaths |-> <<>>]
    /\ callLog = <<>>
    /\ emitted = {}

\* ----------------------------------------------------------------- execute
\* logging.basicConfig(filename=..., filemode="a", level=DEBUG): the root logger
\* gets a FileHandler only if it has no handler yet.
BasicConfig(h, filename) == IF Len(h) = 0 THEN <<filename>> ELSE h

\* A record logged through getLogger("IFCPatch") propagates to every handler of
\* the root logger, each appending it to its file.
Emit(files, h, call) ==
    [p \in LogPaths |->
        IF \E i \in 1..Len(h) : h[i] = p THEN Append(files[p], call) ELSE files[p]]

\* Validation placed after instantiation.
ExecuteOrderLateValidation ==
    <<"import", "policy", "construct", "validate", "patch", "read">>

\* The statements of execute after the logging set-up, in program order.
ExecuteOrder == <<"import", "policy", "validate", "construct", "patch", "read">>

\* The statement that follows `step` when `step` raised nothing.
After(step) ==
    LET i == CHOOSE k \in 1..Len(ExecuteOrder) : ExecuteOrder[k] = step
    IN  IF i = Len(ExecuteOrder) THEN "done" ELSE ExecuteOrder[i + 1]

\* getattr(recipe_module.Patcher, "input_argument", "IGNORED")
get_patch_input_argument_use(attr) == IF attr = NoAttr THEN "IGNORED" ELSE attr

\* A symmetric check: the document is demanded under every policy.
ValidationFailsSymmetric(a, pol) ==
    \/ "file" \notin a.keys
    \/ (pol = "REQUIRED" /\ ~Truthy(GetInput(a)))

\* Lines 94-98: whether the check of the request raises ValueError.
ValidationFails(a, pol) ==
    IF pol = "REQUIRED" THEN ~Truthy(GetInput(a)) ELSE "file" \notin a.keys

\* The two calling conventions exchanged.
ConstructorArgsSwapped(a, doc) ==
    IF ~doc
    THEN <<Scalar(GetInput(a)), Scalar(GetFile(a)), Logger>>
         \o [i \in 1..Len(GetArguments(a)) |-> Scalar(GetArguments(a)[i])]
    ELSE <<Scalar(GetInput(a)), Scalar(GetFile(a)), Logger, ListArg(GetArguments(a))>>

\* Lines 100-104: the positional arguments of recipe.Patcher(...).
ConstructorArgs(a, doc) ==
    IF doc
    THEN <<Scalar(GetInput(a)), Scalar(GetFile(a)), Logger>>
         \o [i \in 1..Len(GetArguments(a)) |-> Scalar(GetArguments(a)[i])]
    ELSE <<Scalar(GetInput(a)), Scalar(GetFile(a)), Logger, ListArg(GetArguments(a))>>

\* Line 106: getattr(patcher, "file_patched", patcher.file). The default is an
\* argument of getattr, so patcher.file is read before file_patched is looked up.
ReadOutcome(p) == IF p.hasFile THEN "returned" ELSE "AttributeError:file"
ReadResult(p) == IF p.hasPatched THEN p.file_patched ELSE p.file

\* Lines 86-88: a caller enters execute with request a.
Call(a) ==
    /\ pc = "idle"
    /\ Len(callLog) < MaxCalls
    /\ args' = a
    /\ handlers' = IF "log" \in a.keys THEN BasicConfig(handlers, a.log) ELSE handlers
    /\ callLog' = Append(callLog, IF "log" \in a.keys THEN a.log ELSE None)
    /\ pc' = ExecuteOrder[1]
    /\ policy' = ""
    /\ trace' = <<>>
    /\ ctorArgs' = <<>>
    /\ hasDoc' = FALSE
    /\ patcher' = NoPatcher
    /\ outcome' = "none"
    /\ result' = None
    /\ UNCHANGED <<logFiles, emitted>>
    /\ UNCHANGED <<writeVars, docVars>>

\* Lines 89-90: __import__("ifcpatch.recipes.<recipe>"); the module may not exist.
Import(exists) ==
    /\ pc = "import"
    /\ trace' = Append(trace, "import")
    /\ IF exists
       THEN /\ pc' = After("import")
            /\ UNCHANGED outcome
       ELSE /\ pc' = "done"
            /\ outcome' = "ModuleNotFoundError"
    /\ UNCHANGED <<args, policy, ctorArgs, hasDoc, patcher, result, handlers, logFiles,
                   callLog, emitted>>
    /\ UNCHANGED <<writeVars, docVars>>

\* Lines 93, 110-114: recipe_module.Patcher may be missing (AttributeError);
\* attr is its input_argument attribute.
GetPolicy(hasPatcherClass, attr) ==
    /\ pc = "policy"
    /\ trace' = Append(trace, "policy")
    /\ IF hasPatcherClass
       THEN /\ policy' = get_patch_input_argument_use(attr)
            /\ pc' = After("policy")
            /\ UNCHANGED outcome
       ELSE /\ pc' = "done"
            /\ outcome' = "AttributeError:Patcher"
            /\ UNCHANGED policy
    /\ UNCHANGED <<args, ctorArgs, hasDoc, patcher, result, handlers, logFiles,
                   callLog, emitted>>
    /\ UNCHANGED <<writeVars, docVars>>

\* Lines 94-98.
Validate ==
    /\ pc = "validate"
    /\ trace' = Append(trace, "validate")
    /\ IF ValidationFails(args, policy)
       THEN /\ pc' = "done"
            /\ outcome' = "ValueError"
       ELSE /\ pc' = After("validate")
            /\ UNCHANGED outcome
    /\ UNCHANGED <<args, policy, ctorArgs, hasDoc, patcher, result, handlers, logFiles,
                   callLog, emitted>>
    /\ UNCHANGED <<writeVars, docVars>>

\* Lines 100-104: the constructor runs recipe code: it may raise, and it may or
\* may not keep the document as self.file.
Construct(doc, raises, storesFile) ==
    /\ pc = "construct"
    /\ trace' = Append(trace, "Patcher")
    /\ hasDoc' = doc
    /\ ctorArgs' = ConstructorArgs(args, doc)
    /\ IF raises
       THEN /\ pc' = "done"
            /\ outcome' = "RecipeError"
            /\ UNCHANGED patcher
       ELSE /\ pc' = After("construct")
            /\ patcher' = [patcher EXCEPT !.hasFile = storesFile,
                                          !.file = IF storesFile THEN GetFile(args) ELSE None]
            /\ UNCHANGED outcome
    /\ UNCHANGED <<args, policy, result, handlers, logFiles, callLog, emitted>>
    /\ UNCHANGED <<writeVars, docVars>>

\* Line 105: patcher.patch() runs recipe code: it logs through the logger it was
\* given, may set file_patched, and may raise.
Patch(raises, patched) ==
    /\ pc = "patch"
    /\ trace' = Append(trace, "patch")
    /\ logFiles' = Emit(logFiles, handlers, Len(callLog))
    /\ emitted' = emitted \cup {Len(callLog)}
    /\ IF raises
       THEN /\ pc' = "done"
            /\ outcome' = "RecipeError"
            /\ UNCHANGED patcher
       ELSE /\ pc' = After("patch")
            /\ patcher' = [patcher EXCEPT !.hasPatched = (patched /= NoAttr),
                                          !.file_patched = IF patched = NoAttr THEN None ELSE patched]
            /\ UNCHANGED outcome
    /\ UNCHANGED <<args, policy, ctorArgs, hasDoc, result, handlers, callLog>>
    /\ UNCHANGED <<writeVars, docVars>>

\* Lines 106-107.
Read ==
    /\ pc = "read"
    /\ trace' = Append(trace, "read")
    /\ outcome' = ReadOutcome(patcher)
    /\ result' = IF ReadOutcome(patcher) = "returned" THEN ReadResult(patcher) ELSE None
    /\ pc' = "done"
    /\ UNCHANGED <<args, policy, ctorArgs, hasDoc, patcher, handlers, logFiles,
                   callLog, emitted>>
    /\ UNCHANGED <<writeVars, docVars>>

\* The call is over: its value or exception reached the caller and its locals
\* are gone; only the process-wide logging state stays.
Return ==
    /\ pc = "done"
    /\ pc' = "idle"
    /\ args' = NoRequest
    /\ policy' = ""
    /\ trace' = <<>>
    /\ ctorArgs' = <<>>
    /\ hasDoc' = FALSE
    /\ patcher' = NoPatcher
    /\ outcome' = "none"
    /\ result' = None
    /\ UNCHANGED <<handlers, logFiles, callLog, emitted>>
    /\ UNCHANGED <<writeVars, docVars>>

Policies == {NoAttr, "REQUIRED", "SUPPORTED", "IGNORED"}
\* What a recipe may leave in file_patched: nothing, a path or text, a model, None.
PatchedValues == {NoAttr, "out.ifc", "ifc2", None}



\* ------------------------------------------------------ properties of execute
Occurs(t, e) == \E i \in 1..Len(t) : t[i] = e
Count(t, e) == Cardinality({i \in 1..Len(t) : t[i] = e})
IsPrefix(s, t) == Len(s) <= Len(t) /\ \A i \in 1..Len(s) : s[i] = t[i]
ResolutionFailed == outcome \in {"ModuleNotFoundError", "AttributeError:Patcher"}

\* C1: once the recipe has resolved and the request has been checked, the call
\* ends in ValueError exactly when (a) the policy is REQUIRED and `input` is
\* missing, None or empty, or (b) the policy is SUPPORTED or IGNORED and the
\* request carries no `file` option. Case (a) does not read `file`, case (b)
\* does not read `input`.
C1_ValidationRule ==
    Occurs(trace, "validate") =>
        ((outcome = "ValueError") <=>
            \/ /\ policy = "REQUIRED"
               /\ ("input" \notin args.keys \/ args.input \in {None, ""})
            \/ /\ policy \in {"SUPPORTED", "IGNORED"}
               /\ "file" \notin args.keys)

\* A REQUIRED recipe rejects a request that has a document but an empty input.
C1_Witness ==
    /\ pc = "done"
    /\ outcome = "ValueError"
    /\ policy = "REQUIRED"
    /\ "file" \in args.keys /\ args.file = "ifc"
    /\ "input" \in args.keys /\ args.input = ""

\* C2: whenever the constructor has been invoked, it received a non-empty
\* input path (policy REQUIRED) or a document handle that is not None (policy
\* SUPPORTED or IGNORED), whatever the request's `input` and `file` hold.
C2_ConstructorNeverNeither ==
    Occurs(trace, "Patcher") =>
        \/ policy = "REQUIRED" /\ ctorArgs[1].v \notin {None, ""}
        \/ policy \in {"SUPPORTED", "IGNORED"} /\ ctorArgs[2].v /= None

\* C3: a call runs resolve, validate, instantiate, patch, read in that order,
\* each at most once; a resolution failure ends the call before validation;
\* after a resolution or validation failure neither the constructor nor patch
\* has run; a call that returned ran the constructor once, then patch once.
C3_StepOrder ==
    /\ IsPrefix(trace, <<"import", "policy", "validate", "Patcher", "patch", "read">>)
    /\ ResolutionFailed =>
          ~Occurs(trace, "validate") /\ ~Occurs(trace, "Patcher") /\ ~Occurs(trace, "patch")
    /\ outcome = "ValueError" =>
          /\ Occurs(trace, "import") /\ Occurs(trace, "policy")
          /\ ~Occurs(trace, "Patcher") /\ ~Occurs(trace, "patch")
    /\ outcome = "returned" =>
          /\ Count(trace, "Patcher") = 1 /\ Count(trace, "patch") = 1
          /\ \A i, j \in 1..Len(trace) :
                trace[i] = "Patcher" /\ trace[j] = "patch" => i < j

\* A call returned a value after running every step.
C3_Witness ==
    /\ pc = "done"
    /\ outcome = "returned"
    /\ trace = <<"import", "policy", "validate", "Patcher", "patch", "read">>

\* C4: the constructor's first three arguments are input, file and the logger;
\* with a constructor docstring the elements of `arguments` follow one by one
\* in list order, without one the whole list is the single fourth argument
\* (the empty list when `arguments` is omitted).
C4_ConstructorArguments ==
    Occurs(trace, "Patcher") =>
        LET given == IF "arguments" \in args.keys THEN args.arguments ELSE <<>>
        IN  /\ Len(ctorArgs) >= 3
            /\ ctorArgs[1] = Scalar(IF "input" \in args.keys THEN args.input ELSE None)
            /\ ctorArgs[2] = Scalar(IF "file" \in args.keys THEN args.file ELSE None)
            /\ ctorArgs[3] = Logger
            /\ hasDoc =>
                  /\ Len(ctorArgs) = 3 + Len(given)
                  /\ \A i \in 1..Len(given) : ctorArgs[3 + i] = Scalar(given[i])
            /\ ~hasDoc =>
                  /\ Len(ctorArgs) = 4
                  /\ ctorArgs[4] = ListArg(given)

\* A documented constructor received two spread arguments.
C4_Witness ==
    /\ Occurs(trace, "Patcher")
    /\ hasDoc
    /\ "arguments" \in args.keys /\ args.arguments = <<"x", "y">>
    /\ Len(ctorArgs) = 5

\* C5: after patch ran without raising, an instance that exposes file_patched
\* or file makes execute return file_patched when it exists, else file.
C5_PatchedOutputPreferred ==
    (pc = "done" /\ Occurs(trace, "read") /\ (patcher.hasPatched \/ patcher.hasFile)) =>
        /\ outcome = "returned"
        /\ result = IF patcher.hasPatched THEN patcher.file_patched ELSE patcher.file

\* C8: the diagnostics of every call that carries a log path, and of every
\* later call, are in the file at that path.
C8_LogFollowsLatestPath ==
    \A i \in 1..Len(callLog) :
        callLog[i] /= None =>
            \A j \in i..Len(callLog) :
                j \in emitted => Occurs(logFiles[callLog[i]], j)

\* ------------------------------------------------------------------- write
\* A path is a sequence of names; a text without a separator names <<text>>.
Names == {"a", "b", "d"}
Paths == {<<n>> : n \in Names} \cup {<<m, n>> : m, n \in Names}
Absent == "<absent>"
Dir == "<dir>"
\* What a regular file may hold before the call.
OldContent == "old"

\* The result handed to write: None, a str, or an ifcopenshell.file.
Outputs ==
    {[kind |-> "None", text |-> ""], [kind |-> "file", text |-> ""]}
        \cup {[kind |-> "str", text |-> n] : n \in Names}

\* Filesystems in which only "d" may be a directory, holding files or nothing.
WellFormed(f) ==
    /\ \A n \in Names \ {"d"} : f[<<n>>] /= Dir
    /\ \A m, n \in Names : f[<<m, n>>] /= Dir
    /\ \A m, n \in Names : f[<<m, n>>] /= Absent => f[<<m>>] = Dir

FileSystems == {f \in [Paths -> {Absent, Dir, OldContent}] : WellFormed(f)}

Exists(f, p) == f[p] /= Absent
IsDir(f, p) == f[p] = Dir

\* os.rename(src, dst) for src /= dst and dst free or a regular file: the entry
\* at src, with what is below it, is at dst afterwards and src is gone.
Rename(f, src, dst) ==
    [p \in Paths |->
        IF p = dst THEN f[src]
        ELSE IF p = src THEN Absent
        ELSE IF Len(p) = 2 /\ Len(src) = 1 /\ p[1] = src[1] THEN Absent
        ELSE IF Len(p) = 2 /\ Len(dst) = 1 /\ p[1] = dst[1] /\ Len(src) = 1
             THEN f[<<src[1], p[2]>>]
        ELSE f[p]]

\* A move that leaves the source in place (a copy).
ShutilMoveCopies(f, src, dst) ==
    IF IsDir(f, dst) \/ IsDir(f, src) \/ src = dst
    THEN [fs |-> f, outcome |-> "ok"]
    ELSE [fs |-> [f EXCEPT ![dst] = f[src]], outcome |-> "ok"]

\* shutil.move(src, dst), src existing. A dst that is a directory receives src
\* under src's basename (or the call raises if that name is taken); src = dst is
\* a rename onto itself; a directory cannot replace a regular file.
ShutilMove(f, src, dst) ==
    IF IsDir(f, dst)
    THEN IF src = dst
         THEN [fs |-> f, outcome |-> "ok"]
         ELSE LET real_dst == <<dst[1], src[Len(src)]>>
              IN  IF Exists(f, real_dst)
                  THEN [fs |-> f, outcome |-> "shutil.Error"]
                  ELSE [fs |-> Rename(f, src, real_dst), outcome |-> "ok"]
    ELSE IF src = dst
         THEN [fs |-> f, outcome |-> "ok"]
    ELSE IF IsDir(f, src) /\ Exists(f, dst)
         THEN [fs |-> f, outcome |-> "FileExistsError"]
    ELSE [fs |-> Rename(f, src, dst), outcome |-> "ok"]

\* with open(filepath, "w") as text_file: text_file.write(output)
OpenAndWrite(f, path, text) ==
    IF IsDir(f, path)
    THEN [fs |-> f, outcome |-> "IsADirectoryError"]
    ELSE [fs |-> [f EXCEPT ![path] = text], outcome |-> "ok"]

\* Lines 131-140. The effect of output.write(filepath) on the filesystem is the
\* handle's own; write only makes the call.
WriteEffect(f, out, path) ==
    IF out.kind = "None"
    THEN [fs |-> f, outcome |-> "ok", ops |-> <<>>]
    ELSE IF out.kind = "str"
    THEN IF Exists(f, <<out.text>>)
         THEN LET r == ShutilMove(f, <<out.text>>, path)
              IN  [fs |-> r.fs, outcome |-> r.outcome,
                   ops |-> <<[op |-> "shutil.move", from |-> <<out.text>>, to |-> path]>>]
         ELSE LET r == OpenAndWrite(f, path, out.text)
              IN  [fs |-> r.fs, outcome |-> r.outcome,
                   ops |-> <<[op |-> "open.write", from |-> <<>>, to |-> path]>>]
    ELSE [fs |-> f, outcome |-> "ok",
          ops |-> <<[op |-> "output.write", from |-> <<>>, to |-> path]>>]

WriteInit ==
    /\ fs0 \in FileSystems
    /\ fs = fs0
    /\ output \in Outputs
    /\ filepath \in {<<n>> : n \in Names}
    /\ wpc = "ready"
    /\ wOutcome = "none"
    /\ ops = <<>>

WriteIdle ==
    /\ fs0 = [p \in Paths |-> Absent]
    /\ fs = fs0
    /\ output = [kind |-> "None", text |-> ""]
    /\ filepath = <<"a">>
    /\ wpc = "idle"
    /\ wOutcome = "none"
    /\ ops = <<>>

\* write(output, filepath)
Write ==
    /\ wpc = "ready"
    /\ LET r == WriteEffect(fs, output, filepath)
       IN  /\ fs' = r.fs
           /\ wOutcome' = r.outcome
           /\ ops' = r.ops
    /\ wpc' = "done"
    /\ UNCHANGED <<fs0, output, filepath>>
    /\ UNCHANGED <<execVars, docVars>>

\* ------------------------------------------------------------ extract_docs
\* Python strings that the code splits, strips or compares are sequences of
\* one-character strings.
Whitespace == {" ", "\n", "\t"}

StartsWith(str, prefix) ==
    Len(prefix) <= Len(str) /\ SubSeq(str, 1, Len(prefix)) = prefix

\* str.split(sep) for a one-character sep: always at least one field.
RECURSIVE Split(_, _)
Split(str, sep) ==
    IF \A i \in 1..Len(str) : str[i] /= sep
    THEN <<str>>
    ELSE LET i == CHOOSE k \in 1..Len(str) :
                      str[k] = sep /\ \A j \in 1..(k - 1) : str[j] /= sep
         IN  <<SubSeq(str, 1, i - 1)>> \o Split(SubSeq(str, i + 1, Len(str)), sep)

\* str.strip()
RECURSIVE Strip(_)
Strip(str) ==
    IF str = <<>> THEN <<>>
    ELSE IF str[1] \in Whitespace THEN Strip(Tail(str))
    ELSE IF str[Len(str)] \in Whitespace THEN Strip(SubSeq(str, 1, Len(str) - 1))
    ELSE str

\* str.replace(old, ""), old not empty.
RECURSIVE Remove(_, _)
Remove(str, old) ==
    IF str = <<>> THEN <<>>
    ELSE IF StartsWith(str, old) THEN Remove(SubSeq(str, Len(old) + 1, Len(str)), old)
    ELSE <<str[1]>> \o Remove(Tail(str), old)

RECURSIVE SeqsUpTo(_, _)
SeqsUpTo(S, n) ==
    IF n = 0 THEN {<<>>}
    ELSE LET shorter == SeqsUpTo(S, n - 1)
         IN  shorter \cup {Append(q, v) : q \in {t \in shorter : Len(t) = n - 1}, v \in S}

RECURSIVE Join(_, _)
Join(strs, sep) ==
    IF Len(strs) = 0 THEN <<>>
    ELSE IF Len(strs) = 1 THEN strs[1]
    ELSE strs[1] \o <<sep>> \o Join(Tail(strs), sep)

ReturnTag == <<":", "r", "e", "t", "u", "r", "n", ":">>
ParamTag == <<":", "p", "a", "r", "a", "m">>
ParamPrefix == <<"p", "a", "r", "a", "m", " ">>
FilterGlobTag == <<":", "f", "i", "l", "t", "e", "r", "_", "g", "l", "o", "b">>
FilterGlobPrefix == <<"f", "i", "l", "t", "e", "r", "_", "g", "l", "o", "b", " ">>
Self == <<"s", "e", "l", "f">>

\* --- type hints, as typing.get_type_hints returns them
NoHint == [kind |-> "none", name |-> "", args |-> <<>>, elem |-> <<>>]
\* A class: str, int, ...
PlainHint(n) == [kind |-> "class", name |-> n, args |-> <<>>, elem |-> <<>>]
\* typing.Union[...]: an instance of typing._UnionGenericAlias.
UnionHint(ns) == [kind |-> "typing.Union", name |-> "Union", args |-> ns, elem |-> <<>>]
\* X | Y: an instance of types.UnionType, which has no __name__.
PipeUnionHint(ns) == [kind |-> "types.UnionType", name |-> NoAttr, args |-> ns, elem |-> <<>>]
\* typing.Literal[...]
LiteralHint(vs) == [kind |-> "typing.Literal", name |-> "Literal", args |-> vs, elem |-> <<>>]
\* list[X], tuple[()]: an instance of types.GenericAlias; elem are its arguments.
GenericAliasHint(n, es) == [kind |-> "types.GenericAlias", name |-> n, args |-> <<>>, elem |-> es]
\* typing.List[X]: an instance of typing._GenericAlias, not of types.GenericAlias.
TypingAliasHint(n, es) == [kind |-> "typing._GenericAlias", name |-> n, args |-> <<>>, elem |-> es]
\* An annotation get_type_hints cannot resolve.
UnresolvedHint == [kind |-> "unresolved", name |-> "", args |-> <<>>, elem |-> <<>>]

ElementHints ==
    {PlainHint("str"), UnionHint(<<"int", "str">>), PipeUnionHint(<<"int", "str">>),
     LiteralHint(<<"x", "y">>), TypingAliasHint("List", <<PlainHint("str")>>)}
Hints ==
    {NoHint, UnresolvedHint, GenericAliasHint("tuple", <<>>)}
        \cup ElementHints
        \cup {GenericAliasHint("list", <<e>>) : e \in {PlainHint("str"), UnionHint(<<"int", "str">>)}}

\* --- parameter defaults: absent, a scalar (str, float, int, bool), anything else
NoDefault == [kind |-> "empty", value |-> ""]
Defaults == {NoDefault, [kind |-> "scalar", value |-> "5"], [kind |-> "other", value |-> "[]"]}

Param(n, d, h) == [name |-> n, default |-> d, hint |-> h]

\* inspect.signature(method).parameters of the methods examined.
Signatures ==
    {<<Param(Self, NoDefault, NoHint)>>}
        \cup {<<Param(Self, NoDefault, NoHint), Param(<<"a">>, d, h)>> : d \in Defaults, h \in Hints}
        \cup {<<Param(Self, NoDefault, NoHint), Param(<<"a">>, NoDefault, h), Param(<<"b">>, d, g)>> :
                 h \in Hints, d \in Defaults, g \in {NoHint, PlainHint("int")}}
        \cup {<<Param(Self, NoDefault, NoHint), Param(<<"b">>, d, g), Param(<<"a">>, NoDefault, h)>> :
                 h \in Hints, d \in Defaults, g \in {NoHint, PlainHint("int")}}

\* --- docstrings
MaxTagLines == 2

TitleLine == <<"T", "i", "t", "l", "e">>
TextLine == <<" ", " ", "t", "e", "x", "t">>
ParamALine == <<" ", " ">> \o ParamTag \o <<" ", "a", ":", " ", "o", "n", "e">>
ParamZLine == ParamTag \o <<" ", "z", ":", " ", "t", "w", "o">>
GlobALine == FilterGlobTag \o <<" ", "a", ":", " ", "*", ".", "i", "f", "c">>
ReturnLineFull == ReturnTag \o <<" ", "o", "u", "t", ":", " ", "r", "e", "s">>
ReturnLineShort == ReturnTag \o <<" ", "o", "u", "t">>
ParamALineShort == ParamTag \o <<" ", "a">>
DocLines ==
    {TextLine, ParamALine, ParamZLine, GlobALine, ReturnLineFull, ReturnLineShort,
     ParamALineShort}

\* method.__doc__: a title, a blank line, then up to MaxTagLines lines.
DocStrings ==
    {Join(<<TitleLine, <<>>>> \o body, "\n") : body \in SeqsUpTo(DocLines, MaxTagLines)}

\* --- one entry of `inputs`; absent keys are marked by the has* flags
NewInput(n) ==
    [name |-> n,
     hasDefault |-> FALSE, default |-> "",
     hasGeneric |-> FALSE, generic_type |-> "",
     typeKind |-> "unset", type |-> "", types |-> <<>>, enum_items |-> <<>>,
     hasDescription |-> FALSE, description |-> <<>>,
     hasFilterGlob |-> FALSE, filter_glob |-> <<>>]

Keys(inputs) == [i \in 1..Len(inputs) |-> inputs[i].name]
HasKey(inputs, n) == \E i \in 1..Len(inputs) : inputs[i].name = n

\* Lines 175-180: the signature loop.
RECURSIVE SignatureInputs(_, _)
SignatureInputs(params, boilerplate) ==
    IF params = <<>> THEN <<>>
    ELSE LET p == params[1]
             rest == SignatureInputs(Tail(params), boilerplate)
         IN  IF p.name = Self \/ p.name \in boilerplate
             THEN rest
             ELSE <<[NewInput(p.name) EXCEPT
                        !.hasDefault = (p.default.kind = "scalar"),
                        !.default = IF p.default.kind = "scalar" THEN p.default.value ELSE ""]>>
                  \o rest

\* Lines 189-201 for one hinted input: the entry, or the exception raised.
HintedInput(entry, hint) ==
    LET generic == hint.kind = "types.GenericAlias"
        e1 == IF generic
              THEN [entry EXCEPT !.hasGeneric = TRUE, !.generic_type = hint.name]
              ELSE entry
    IN  IF generic /\ Len(hint.elem) = 0
        THEN [raised |-> "IndexError", entry |-> entry]
        ELSE LET h == IF generic THEN hint.elem[1] ELSE hint
             IN  IF h.kind = "typing.Union"
                 THEN [raised |-> "", entry |-> [e1 EXCEPT !.typeKind = "list", !.types = h.args]]
                 ELSE IF h.name = NoAttr
                 THEN [raised |-> "AttributeError", entry |-> entry]
                 ELSE IF h.name = "Literal"
                 THEN [raised |-> "",
                       entry |-> [e1 EXCEPT !.typeKind = "name", !.type = "Literal",
                                            !.enum_items = h.args]]
                 ELSE [raised |-> "", entry |-> [e1 EXCEPT !.typeKind = "name", !.type = h.name]]

HintOf(params, n) == (CHOOSE i \in 1..Len(params) : params[i].name = n)

\* Lines 183-201: get_type_hints, then the loop over the inputs, which stops at
\* the first exception.
RECURSIVE HintLoop(_, _, _)
HintLoop(inputs, params, i) ==
    IF i > Len(inputs) THEN [raised |-> "", inputs |-> inputs]
    ELSE LET hint == params[HintOf(params, inputs[i].name)].hint
         IN  IF hint.kind = "none"
             THEN HintLoop(inputs, params, i + 1)
             ELSE LET r == HintedInput(inputs[i], hint)
                  IN  IF r.raised /= ""
                      THEN [raised |-> r.raised, inputs |-> inputs]
                      ELSE HintLoop([inputs EXCEPT ![i] = r.entry], params, i + 1)

TypeHints(inputs, params) ==
    IF \E i \in 1..Len(params) : params[i].hint.kind = "unresolved"
    THEN [raised |-> "NameError", inputs |-> inputs]
    ELSE HintLoop(inputs, params, 1)


\* inputs[n][field] = value, for a key n that exists: the order is kept.
SetDescription(inputs, n, value) ==
    [i \in 1..Len(inputs) |->
        IF inputs[i].name = n
        THEN [inputs[i] EXCEPT !.hasDescription = TRUE, !.description = value]
        ELSE inputs[i]]

SetFilterGlob(inputs, n, value) ==
    [i \in 1..Len(inputs) |->
        IF inputs[i].name = n
        THEN [inputs[i] EXCEPT !.hasFilterGlob = TRUE, !.filter_glob = value]
        ELSE inputs[i]]

\* A :param line that creates the entry it names when there is none.
ParamLineCreating(acc, line) ==
    LET fields == Split(line, ":")
        param_name == Remove(Strip(fields[2]), ParamPrefix)
    IN  IF Len(fields) < 3 THEN [acc EXCEPT !.raised = "IndexError"]
        ELSE [acc EXCEPT !.inputs =
                 SetDescription(IF HasKey(acc.inputs, param_name) THEN acc.inputs
                                ELSE Append(acc.inputs, NewInput(param_name)),
                                param_name, Strip(fields[3]))]

\* Lines 213-216: a line that starts with ":param".
ParamLine(acc, line) ==
    LET fields == Split(line, ":")
        param_name == Remove(Strip(fields[2]), ParamPrefix)
    IN  IF ~HasKey(acc.inputs, param_name) THEN acc
        ELSE IF Len(fields) < 3 THEN [acc EXCEPT !.raised = "IndexError"]
        ELSE [acc EXCEPT !.inputs = SetDescription(acc.inputs, param_name, Strip(fields[3]))]

\* Lines 218-221: a line that starts with ":filter_glob".
FilterGlobLine(acc, line) ==
    LET fields == Split(line, ":")
        param_name == Remove(Strip(fields[2]), FilterGlobPrefix)
    IN  IF ~HasKey(acc.inputs, param_name) THEN acc
        ELSE IF Len(fields) < 3 THEN [acc EXCEPT !.raised = "IndexError"]
        ELSE [acc EXCEPT !.inputs = SetFilterGlob(acc.inputs, param_name, Strip(fields[3]))]

\* Lines 211-212: a line that starts with ":return:".
ReturnLine(acc, line) ==
    LET fields == Split(line, ":")
    IN  IF Len(fields) < 4 THEN [acc EXCEPT !.raised = "IndexError"]
        ELSE [acc EXCEPT !.hasOutput = TRUE,
                         !.output = [name |-> Strip(fields[3]), description |-> Strip(fields[4])]]

\* Lines 208-225: one pass of the loop, i counted from 0 as enumerate does.
DocLine(acc, i, raw) ==
    LET line == Strip(raw)
    IN  IF i = 0 THEN [acc EXCEPT !.name = line]
        ELSE IF StartsWith(line, ReturnTag) THEN ReturnLine(acc, line)
        ELSE IF StartsWith(line, ParamTag) THEN ParamLine(acc, line)
        ELSE IF StartsWith(line, FilterGlobTag) THEN FilterGlobLine(acc, line)
        ELSE IF i = 2 THEN [acc EXCEPT !.description = acc.description \o line]
        ELSE IF i > 2 THEN [acc EXCEPT !.description = acc.description \o <<"\n">> \o line]
        ELSE acc

RECURSIVE DocLoop(_, _, _)
DocLoop(acc, lines, i) ==
    IF i >= Len(lines) \/ acc.raised /= "" THEN acc
    ELSE DocLoop(DocLine(acc, i, lines[i + 1]), lines, i + 1)

NoOutput == [name |-> <<>>, description |-> <<>>]

\* Lines 204-228: the docstring pass over the inputs built so far.
ParseDoc(inputs, hasDocString, doc) ==
    LET start == [inputs |-> inputs, raised |-> "", documented |-> hasDocString,
                  name |-> <<>>, description |-> <<>>,
                  hasOutput |-> FALSE, output |-> NoOutput]
    IN  IF ~hasDocString THEN start
        ELSE LET acc == DocLoop(start, Split(doc, "\n"), 0)
             IN  [acc EXCEPT !.description = Strip(acc.description)]

\* Lines 167-229: _extract_docs(cls, method_name, boilerplate_args).
ExtractFromClass(in) ==
    LET boilerplate == IF in.boilerplateIsNone THEN {} ELSE in.boilerplate
        fromSignature == SignatureInputs(in.params, boilerplate)
        hinted == TypeHints(fromSignature, in.params)
    IN  IF ~in.hasMethod THEN [raised |-> "AttributeError", before |-> <<>>,
                               docs |-> ParseDoc(<<>>, FALSE, <<>>)]
        ELSE IF hinted.raised /= ""
        THEN [raised |-> hinted.raised, before |-> <<>>, docs |-> ParseDoc(<<>>, FALSE, <<>>)]
        ELSE LET parsed == ParseDoc(hinted.inputs, in.hasDocString, in.doc)
             IN  [raised |-> parsed.raised, before |-> hinted.inputs, docs |-> parsed]

\* Lines 153-164: extract_docs. AttributeError and ModuleNotFoundError are
\* caught and printed; anything else reaches the caller.
ExtractOutcome(in) ==
    IF in.load /= "ok"
    THEN IF in.load = "ModuleNotFoundError" THEN "nothing" ELSE in.load
    ELSE IF ~in.hasClass THEN "nothing"
    ELSE LET r == ExtractFromClass(in)
         IN  IF r.raised = "" THEN "docs"
             ELSE IF r.raised = "AttributeError" THEN "nothing"
             ELSE r.raised

\* exec_module: fine, the file is missing, an import inside it fails, or the
\* file is not valid Python.
LoadOutcomes == {"ok", "FileNotFoundError", "ModuleNotFoundError", "SyntaxError"}

DocRequests ==
    [load : LoadOutcomes,
     hasClass : BOOLEAN,
     hasMethod : BOOLEAN,
     params : Signatures,
     boilerplateIsNone : BOOLEAN,
     boilerplate : {{}, {<<"a">>}},
     hasDocString : BOOLEAN,
     doc : DocStrings]

\* One representative per request: what the code never reads is fixed.
CanonicalDocRequest(in) ==
    /\ in.boilerplateIsNone => in.boilerplate = {}
    /\ ~in.hasDocString => in.doc = Join(<<TitleLine, <<>>>>, "\n")
    /\ (in.load /= "ok" \/ ~in.hasClass \/ ~in.hasMethod) =>
          /\ in.params = <<Param(Self, NoDefault, NoHint)>>
          /\ ~in.hasDocString
          /\ in.boilerplateIsNone
    /\ in.load /= "ok" => in.hasClass /\ in.hasMethod
    /\ ~in.hasClass => in.hasMethod

DocsInit ==
    /\ dIn \in {in \in DocRequests : CanonicalDocRequest(in)}
    /\ dpc = "ready"
    /\ dOutcome = "none"
    /\ docs = ParseDoc(<<>>, FALSE, <<>>)
    /\ sigInputs = <<>>
    /\ printed = FALSE

DocsIdle ==
    /\ dIn = [load |-> "ok", hasClass |-> TRUE, hasMethod |-> TRUE,
              params |-> <<Param(Self, NoDefault, NoHint)>>, boilerplateIsNone |-> TRUE,
              boilerplate |-> {}, hasDocString |-> FALSE,
              doc |-> Join(<<TitleLine, <<>>>>, "\n")]
    /\ dpc = "idle"
    /\ dOutcome = "none"
    /\ docs = ParseDoc(<<>>, FALSE, <<>>)
    /\ sigInputs = <<>>
    /\ printed = FALSE

\* extract_docs(submodule_name, cls_name, method_name, boilerplate_args)
ExtractDocs ==
    /\ dpc = "ready"
    /\ dpc' = "done"
    /\ dOutcome' = ExtractOutcome(dIn)
    /\ printed' = (ExtractOutcome(dIn) = "nothing")
    /\ IF ExtractOutcome(dIn) = "docs"
       THEN /\ docs' = ExtractFromClass(dIn).docs
            /\ sigInputs' = ExtractFromClass(dIn).before
       ELSE UNCHANGED <<docs, sigInputs>>
    /\ UNCHANGED dIn
    /\ UNCHANGED <<execVars, writeVars>>

\* -------------------------------------------------------- the specifications
Init == ExecInit /\ WriteIdle /\ DocsIdle
Next ==
    \/ \E a \in Requests : Call(a)
    \/ \E exists \in BOOLEAN : Import(exists)
    \/ \E h \in BOOLEAN, attr \in Policies : GetPolicy(h, attr)
    \/ Validate
    \/ \E d \in BOOLEAN, r \in BOOLEAN, st \in BOOLEAN : Construct(d, r, st)
    \/ \E r \in BOOLEAN, p \in PatchedValues : Patch(r, p)
    \/ Read
    \/ Return
Spec == Init /\ [][Next]_vars

InitWrite == ExecInit /\ WriteInit /\ DocsIdle
NextWrite == Write
SpecWrite == InitWrite /\ [][NextWrite]_vars

InitDocs == ExecInit /\ WriteIdle /\ DocsInit
NextDocs == ExtractDocs
SpecDocs == InitDocs /\ [][NextDocs]_vars

\* ------------------------------------------------------- properties of write
OutputPath == <<output.text>>

\* C6 as stated: None leaves the filesystem alone; a text naming an existing
\* path ends at filepath and is gone from where it was; any other text becomes
\* the content of filepath; a document handle only gets its write called.
C6_WriteDispatchAsStated ==
    wpc = "done" =>
        /\ output.kind = "None" => fs = fs0 /\ ops = <<>>
        /\ (output.kind = "str" /\ Exists(fs0, OutputPath)) =>
              fs[filepath] = fs0[OutputPath] /\ fs[OutputPath] = Absent
        /\ (output.kind = "str" /\ ~Exists(fs0, OutputPath)) =>
              fs[filepath] = output.text
        /\ output.kind = "file" =>
              fs = fs0 /\ ops = <<[op |-> "output.write", from |-> <<>>, to |-> filepath]>>

\* C6, amended: write makes exactly one call chosen by the shape of the result.
\* None: no call, filesystem unchanged. A text naming an existing path: one
\* shutil.move to filepath; if the text is filepath itself nothing changes; if
\* filepath is an existing directory it stays one; otherwise, when the move
\* succeeds, the entry is at filepath and gone from where it was. Any other
\* text: one open-and-write; filepath then holds exactly the text unless it is
\* a directory, in which case the call raises and nothing changes. A document
\* handle: only its write is called, with filepath.
C6_WriteDispatch ==
    wpc = "done" =>
        /\ output.kind = "None" => fs = fs0 /\ ops = <<>> /\ wOutcome = "ok"
        /\ (output.kind = "str" /\ Exists(fs0, OutputPath)) =>
              /\ ops = <<[op |-> "shutil.move", from |-> OutputPath, to |-> filepath]>>
              /\ OutputPath = filepath => fs = fs0
              /\ IsDir(fs0, filepath) => IsDir(fs, filepath)
              /\ (OutputPath /= filepath /\ ~IsDir(fs0, filepath) /\ wOutcome = "ok") =>
                    fs[filepath] = fs0[OutputPath] /\ fs[OutputPath] = Absent
        /\ (output.kind = "str" /\ ~Exists(fs0, OutputPath)) =>
              /\ ops = <<[op |-> "open.write", from |-> <<>>, to |-> filepath]>>
              /\ ~IsDir(fs0, filepath) => fs[filepath] = output.text /\ wOutcome = "ok"
              /\ IsDir(fs0, filepath) => fs = fs0 /\ wOutcome = "IsADirectoryError"
        /\ output.kind = "file" =>
              /\ fs = fs0 /\ wOutcome = "ok"
              /\ ops = <<[op |-> "output.write", from |-> <<>>, to |-> filepath]>>

\* A file returned by path was moved over another existing file.
C6_Witness ==
    /\ wpc = "done"
    /\ output = [kind |-> "str", text |-> "a"]
    /\ filepath = <<"b">>
    /\ fs0[<<"a">>] = OldContent /\ fs0[<<"b">>] = OldContent
    /\ fs[<<"b">>] = OldContent /\ fs[<<"a">>] = Absent
    /\ wOutcome = "ok"

\* ------------------------------------------------ properties of extract_docs
\* C7: extract_docs ends by returning the documentation or by returning
\* nothing after printing a diagnostic; no exception reaches the caller.
C7_NeverRaises ==
    dpc = "done" =>
        /\ dOutcome \in {"docs", "nothing"}
        /\ dOutcome = "nothing" => printed

RetainedNames ==
    LET excluded == IF dIn.boilerplateIsNone THEN {} ELSE dIn.boilerplate
        Retained(p) == p.name /= Self /\ p.name \notin excluded
        kept == SelectSeq(dIn.params, Retained)
    IN  [i \in 1..Len(kept) |-> kept[i].name]

WithoutDocFields(entry) ==
    [entry EXCEPT !.hasDescription = FALSE, !.description = <<>>,
                  !.hasFilterGlob = FALSE, !.filter_glob = <<>>]

\* C9: the keys of the returned `inputs`, in order, are the method's parameters
\* in declaration order without self and the excluded names; the docstring adds
\* no key and changes nothing of an entry but description and filter_glob.
C9_InputsOrder ==
    (dpc = "done" /\ dOutcome = "docs") =>
        /\ Keys(docs.inputs) = RetainedNames
        /\ Len(sigInputs) = Len(docs.inputs)
        /\ \A i \in 1..Len(docs.inputs) :
              /\ WithoutDocFields(docs.inputs[i]) = sigInputs[i]
              /\ docs.inputs[i].hasDescription => docs.inputs[i].name = <<"a">>
              /\ docs.inputs[i].hasFilterGlob => docs.inputs[i].name = <<"a">>

\* (b, a) was documented by a tag for the unknown z and a tag for a.
C9_Witness ==
    /\ dpc = "done" /\ dOutcome = "docs"
    /\ dIn.hasDocString
    /\ dIn.doc = Join(<<TitleLine, <<>>, ParamZLine, ParamALine>>, "\n")
    /\ Keys(docs.inputs) = << <<"b">>, <<"a">> >>
    /\ docs.inputs[2].hasDescription /\ docs.inputs[2].description = <<"o", "n", "e">>
    /\ ~docs.inputs[1].hasDescription

IsContainer(h) == h.kind \in {"types.GenericAlias", "typing._GenericAlias"}
IsUnion(h) == h.kind \in {"typing.Union", "types.UnionType"}

\* What C10 says an entry records for hint h.
RecordsHint(entry, h) ==
    LET inner == IF IsContainer(h) /\ Len(h.elem) > 0 THEN h.elem[1] ELSE h
    IN  /\ IsContainer(h) => entry.hasGeneric /\ entry.generic_type = h.name
        /\ ~IsContainer(h) => ~entry.hasGeneric
        /\ IF IsUnion(inner)
           THEN entry.typeKind = "list" /\ entry.types = inner.args
           ELSE IF inner.kind = "typing.Literal"
           THEN entry.typeKind = "name" /\ entry.type = "Literal"
                /\ entry.enum_items = inner.args
           ELSE entry.typeKind = "name" /\ entry.type = inner.name

\* C10: every retained parameter with a type hint gets its type by the shape of
\* the hint (container unwrapped and named, union as the member names, literal
\* as "Literal" with its values, else the plain name), an unhinted parameter
\* gets no type, and no hint makes extraction return nothing.
C10_TypeByHintShape ==
    (dpc = "done" /\ dIn.load = "ok" /\ dIn.hasClass /\ dIn.hasMethod) =>
        /\ dOutcome /= "nothing"
        /\ dOutcome = "docs" =>
              \A i \in 1..Len(docs.inputs) :
                  LET h == dIn.params[HintOf(dIn.params, docs.inputs[i].name)].hint
                  IN  IF h.kind = "none"
                      THEN docs.inputs[i].typeKind = "unset" /\ ~docs.inputs[i].hasGeneric
                      ELSE RecordsHint(docs.inputs[i], h)

====
